---- MODULE Spec2Model ----
(***************************************************************************)
(* A model of the dependency-graph engine of code-mentor:                  *)
(*   DependencyGraph      (src/dependency_graph.py, lines 7-81)            *)
(*   DependencyExtractor  (src/dependency_graph.py, lines 83-265)          *)
(* and of the repository scans that feed it:                               *)
(*   scan_repository      (src/helper.py, src/main.py)                     *)
(*   RepoParser.parse_repo (src/repo_parser.py)                            *)
(*                                                                         *)
(* File paths and module names are sequences of one-character strings, so  *)
(* that str.replace and str.endswith are computed character by character.  *)
(* A function's local name is an identifier; the code only compares it for *)
(* equality, so it is an atomic string here.  The composite key            *)
(* f"{file_path}::{func_name}" is the pair <<file_path, func_name>>: an    *)
(* identifier holds no ':', so the text after the last "::" is the name    *)
(* and the text before it the path, and the pair loses nothing.            *)
(***************************************************************************)
EXTENDS Integers, Sequences, FiniteSets, TLC

VARIABLES
    files,                  \* DependencyGraph.files: Set[str]
    functions,              \* DependencyGraph.functions: unique_name -> file_path
    file_dependencies,      \* DependencyGraph.file_dependencies: file -> set(files)
    function_dependencies,  \* DependencyGraph.function_dependencies: func -> set(funcs)
    function_definitions,   \* DependencyGraph.function_definitions: file -> [(func_name, unique_name)]
    function_name_index,    \* DependencyGraph.function_name_index: func_name -> [unique_name]
    repo,                   \* the repository under analysis: file_path -> syntax tree
    extracted,              \* file_path -> number of extract_definitions calls made for it
    resolved,               \* file_path -> number of resolve_dependencies calls made for it
    raised,                 \* TRUE once a call has raised KeyError out of the graph store
    phase,                  \* position of the two-pass caller: "collect", "resolve", "done"
    run,                    \* number of the two-pass run the caller is in
    firstEdges,             \* the edge sets the first two-pass run ended with
    entry,                  \* the scan under way: "helper", "main", "repo_parser" or "none"
    file_list,              \* scan_repository's file_list, each file readable or not
    results,                \* the scan's result list (parse_repo: the pairs yielded)
    printed,                \* the error lines the scan has printed
    position,               \* the number of files the scan's loop has dealt with
    futures,                \* main.py: task index -> "queued", "running" or the result returned
    workers                 \* main.py: worker process -> its parser global and its task

vars == <<files, functions, file_dependencies, function_dependencies,
          function_definitions, function_name_index, repo, extracted, resolved,
          raised, phase, run, firstEdges,
          entry, file_list, results, printed, position, futures, workers>>

scanVars == <<entry, file_list, results, printed, position, futures, workers>>

graphVars == <<files, functions, file_dependencies, function_dependencies,
               function_definitions, function_name_index>>

-----------------------------------------------------------------------------
(* Bounds of the model.                                                    *)

\* files of a repository
MaxFiles == 2
\* extract_definitions calls per file
MaxExtracts == 2
\* resolve_dependencies calls per file
MaxResolves == 2
\* add_function calls made directly on the graph store
MaxRegistrations == 3
\* two-pass runs of the caller over one repository
MaxRuns == 2
\* import statements of a repository
MaxImports == 2
\* syntax nodes (imports, definitions, calls) of a repository
MaxSize == 4
\* call expressions written directly in one function body
MaxCalls == 1

-----------------------------------------------------------------------------
(* Strings.                                                                *)

\* str.endswith(suffix)
EndsWith(s, suffix) ==
    /\ Len(suffix) <= Len(s)
    /\ SubSeq(s, Len(s) - Len(suffix) + 1, Len(s)) = suffix

\* str.replace('.', '/')
ReplaceDots(s) == [i \in 1..Len(s) |-> IF s[i] = "." THEN "/" ELSE s[i]]

RECURSIVE LastIndexOf(_, _, _)
\* the largest i <= n with s[i] = c, or 0
LastIndexOf(s, c, n) ==
    IF n = 0 THEN 0
    ELSE IF s[n] = c THEN n ELSE LastIndexOf(s, c, n - 1)

\* os.path.basename(path): the text after the last '/'
Basename(path) ==
    SubSeq(path, LastIndexOf(path, "/", Len(path)) + 1, Len(path))

\* os.path.splitext(path)[1]: from the last '.' of the basename, if that dot
\* is not the basename's leading character; otherwise empty
SplitExt(path) ==
    LET base == Basename(path)
        dot  == LastIndexOf(base, ".", Len(base))
    IN  IF dot <= 1 THEN <<>> ELSE SubSeq(base, dot, Len(base))

PyExt == <<".", "p", "y">>
InitPy == <<"/", "_", "_", "i", "n", "i", "t", "_", "_", ".", "p", "y">>

\* self.languages: the extensions a Language is configured for
Languages == {PyExt}

\* PYTHON_BUILTINS: the names excluded from call tracking
PYTHON_BUILTINS ==
    {"abs", "all", "any", "ascii", "bin", "bool", "breakpoint", "bytearray",
     "bytes", "callable", "chr", "classmethod", "compile", "complex",
     "delattr", "dict", "dir", "divmod", "enumerate", "eval", "exec",
     "filter", "float", "format", "frozenset", "getattr", "globals",
     "hasattr", "hash", "help", "hex", "id", "input", "int", "isinstance",
     "issubclass", "iter", "len", "list", "locals", "map", "max",
     "memoryview", "min", "next", "object", "oct", "open", "ord", "pow",
     "print", "property", "range", "repr", "reversed", "round", "set",
     "setattr", "slice", "sorted", "staticmethod", "str", "sum", "super",
     "tuple", "type", "vars", "zip", "__import__"}

-----------------------------------------------------------------------------
(* DependencyGraph.                                                        *)

\* the graph store as one value
Graph ==
    [files |-> files, functions |-> functions,
     file_dependencies |-> file_dependencies,
     function_dependencies |-> function_dependencies,
     function_definitions |-> function_definitions,
     function_name_index |-> function_name_index]

\* DependencyGraph.__init__
EmptyGraph ==
    [files |-> {}, functions |-> <<>>,
     file_dependencies |-> <<>>,
     function_dependencies |-> <<>>,
     function_definitions |-> <<>>,
     function_name_index |-> <<>>]

\* d[k] = v for a dict d
Put(d, k, v) == [x \in (DOMAIN d) \cup {k} |-> IF x = k THEN v ELSE d[x]]

\* f"{file_path}::{func_name}"
UniqueName(file_path, func_name) == <<file_path, func_name>>

\* unique_name.split("::")[-1]
Label(unique_name) == unique_name[2]

\* DependencyGraph.add_file
add_file(g, file_path) ==
    [g EXCEPT
        !.files = @ \cup {file_path},
        !.file_dependencies =
            IF file_path \notin DOMAIN @ THEN Put(@, file_path, {}) ELSE @]

\* DependencyGraph.add_function
add_function(g, func_name, file_path) ==
    LET unique_name == UniqueName(file_path, func_name) IN
    [g EXCEPT
        !.functions = Put(@, unique_name, file_path),
        !.function_dependencies =
            IF unique_name \notin DOMAIN @ THEN Put(@, unique_name, {}) ELSE @,
        !.function_definitions =
            Put(@, file_path,
                Append(IF file_path \notin DOMAIN @ THEN <<>> ELSE @[file_path],
                       <<func_name, unique_name>>)),
        !.function_name_index =
            Put(@, func_name,
                Append(IF func_name \notin DOMAIN @ THEN <<>> ELSE @[func_name],
                       unique_name))]

\* add_file_dependency with its arguments taken in the other order
add_file_dependency_reversed(g, source_file, target_file) ==
    IF source_file \in g.files /\ target_file \in g.files
    THEN [g EXCEPT !.file_dependencies[target_file] = @ \cup {source_file}]
    ELSE g

\* add_file_dependency testing only that the source file is registered
add_file_dependency_source_only(g, source_file, target_file) ==
    IF source_file \in g.files
    THEN [g EXCEPT !.file_dependencies[source_file] = @ \cup {target_file}]
    ELSE g

\* add_file_dependency assigning the edge set instead of adding to it
add_file_dependency_overwrite(g, source_file, target_file) ==
    IF source_file \in g.files /\ target_file \in g.files
    THEN [g EXCEPT !.file_dependencies[source_file] = {target_file}]
    ELSE g

\* add_file_dependency registering the files it is given instead of testing
\* that they are registered
add_file_dependency_registering(g, source_file, target_file) ==
    [g EXCEPT
        !.files = @ \cup {source_file, target_file},
        !.file_dependencies =
            Put(@, source_file,
                (IF source_file \in DOMAIN @ THEN @[source_file] ELSE {})
                    \cup {target_file})]

\* DependencyGraph.add_file_dependency
add_file_dependency(g, source_file, target_file) ==
    IF source_file \in g.files /\ target_file \in g.files
    THEN [g EXCEPT !.file_dependencies[source_file] = @ \cup {target_file}]
    ELSE g

\* the matches add_function_dependency iterates over
Matches(g, target_func_name) ==
    IF target_func_name \in DOMAIN g.function_name_index
    THEN g.function_name_index[target_func_name]
    ELSE <<>>

\* add_function_dependency raises KeyError: the loop body subscripts
\* function_dependencies with a key that add_function never created
add_function_dependency_raises(g, source_func_unique, target_func_name) ==
    /\ Matches(g, target_func_name) # <<>>
    /\ source_func_unique \notin DOMAIN g.function_dependencies

\* add_function_dependency leaving its loop after the first match
add_function_dependency_first(g, source_func_unique, target_func_name) ==
    IF Matches(g, target_func_name) = <<>>
    THEN g
    ELSE [g EXCEPT !.function_dependencies[source_func_unique] =
             @ \cup {Matches(g, target_func_name)[1]}]

\* add_function_dependency reading the index as a defaultdict(list) would:
\* the lookup of an absent name leaves an empty entry behind
add_function_dependency_defaultdict(g, source_func_unique, target_func_name) ==
    IF Matches(g, target_func_name) = <<>>
    THEN [g EXCEPT !.function_name_index = Put(@, target_func_name, <<>>)]
    ELSE [g EXCEPT !.function_dependencies[source_func_unique] =
             @ \cup {Matches(g, target_func_name)[i] :
                        i \in 1..Len(Matches(g, target_func_name))}]

\* DependencyGraph.add_function_dependency, when it returns normally
add_function_dependency(g, source_func_unique, target_func_name) ==
    IF Matches(g, target_func_name) = <<>>
    THEN g
    ELSE [g EXCEPT !.function_dependencies[source_func_unique] =
             @ \cup {Matches(g, target_func_name)[i] :
                        i \in 1..Len(Matches(g, target_func_name))}]


RECURSIVE SetToSeq(_)
\* the members of a set (the keys of a dict), in an order of iteration
SetToSeq(S) ==
    IF S = {} THEN <<>>
    ELSE LET x == CHOOSE y \in S : TRUE IN <<x>> \o SetToSeq(S \ {x})

RECURSIVE Concat(_)
\* the concatenation of a sequence of sequences
Concat(qs) == IF qs = <<>> THEN <<>> ELSE Head(qs) \o Concat(Tail(qs))

\* a line of to_dot that is neither a node nor an edge
TextLine(text) == [kind |-> "text", text |-> text]

\* "label";  or  "label" [label="label"];  in a subgraph
NodeLine(cluster, label) == [kind |-> "node", cluster |-> cluster, label |-> label]

\* "src" -> "tgt";  in a subgraph
EdgeLine(cluster, src, tgt) ==
    [kind |-> "edge", cluster |-> cluster, src |-> src, tgt |-> tgt]

\* DependencyGraph.to_dot: the lines it joins.  The loops run over a set and
\* over dicts; no claim made of the output depends on their order.
to_dot(g) ==
    LET fileSeq == SetToSeq(g.files)
        srcFiles == SetToSeq(DOMAIN g.file_dependencies)
        keySeq == SetToSeq(DOMAIN g.functions)
        srcKeys == SetToSeq(DOMAIN g.function_dependencies)
        FileEdgeLines(src) ==
            LET tgts == SetToSeq(g.file_dependencies[src]) IN
            [i \in 1..Len(tgts) |->
                EdgeLine("cluster_files", Basename(src), Basename(tgts[i]))]
        CallEdgeLines(src) ==
            LET tgts == SetToSeq(g.function_dependencies[src]) IN
            [i \in 1..Len(tgts) |->
                EdgeLine("cluster_functions", Label(src), Label(tgts[i]))]
    IN  <<TextLine("digraph CodeGraph {"), TextLine("rankdir=LR;"),
          TextLine("node [shape=box];"),
          TextLine("subgraph cluster_files {"),
          TextLine("label = File Dependencies;")>>
        \o [i \in 1..Len(fileSeq) |-> NodeLine("cluster_files", Basename(fileSeq[i]))]
        \o Concat([i \in 1..Len(srcFiles) |-> FileEdgeLines(srcFiles[i])])
        \o <<TextLine("}"),
             TextLine("subgraph cluster_functions {"),
             TextLine("label = Function Dependencies;")>>
        \o [i \in 1..Len(keySeq) |-> NodeLine("cluster_functions", Label(keySeq[i]))]
        \o Concat([i \in 1..Len(srcKeys) |-> CallEdgeLines(srcKeys[i])])
        \o <<TextLine("}"), TextLine("}")>>

-----------------------------------------------------------------------------
(* The syntax trees handed to the extractor.  A tree is what the queries   *)
(* of DependencyExtractor see of a file:                                   *)
(*   imports : the import statements in document order; "import m" is      *)
(*             [kind |-> "import", mod |-> m], "from m import n" is        *)
(*             [kind |-> "from", mod |-> m, name |-> n];                   *)
(*   defs    : the function definitions in document order, each            *)
(*             [name, calls, inner]: its local name, the call expressions  *)
(*             written directly in its body, each [kind |-> "name" or      *)
(*             "attr", name |-> the captured identifier], and the function *)
(*             definitions nested in its body.                             *)

\* captures['mod'] of the import query: import_statement name, then for a
\* from-import its module_name and its name, in document order
RECURSIVE ImportCaptures(_)
ImportCaptures(imports) ==
    IF imports = <<>> THEN <<>>
    ELSE LET st == Head(imports) IN
         (IF st.kind = "import" THEN <<st.mod>> ELSE <<st.mod, st.name>>)
         \o ImportCaptures(Tail(imports))

\* every function_definition node of a forest, outer before inner, in
\* document order
RECURSIVE AllDefs(_)
AllDefs(defs) ==
    IF defs = <<>> THEN <<>>
    ELSE <<Head(defs)>> \o AllDefs(Head(defs).inner) \o AllDefs(Tail(defs))

\* every call node below a body: the body's own calls and those of the
\* definitions nested in it
RECURSIVE CallsBelow(_)
CallsBelow(def) ==
    LET RECURSIVE Inner(_)
        Inner(ds) == IF ds = <<>> THEN <<>>
                     ELSE CallsBelow(Head(ds)) \o Inner(Tail(ds))
    IN  def.calls \o Inner(def.inner)

\* the names of the calls of one capture kind, in order
RECURSIVE NamesOfKind(_, _)
NamesOfKind(calls, kind) ==
    IF calls = <<>> THEN <<>>
    ELSE (IF Head(calls).kind = kind THEN <<Head(calls).name>> ELSE <<>>)
         \o NamesOfKind(Tail(calls), kind)

\* calls_found without the call_name captures
CallsFound_attr_only(def) ==
    NamesOfKind(CallsBelow(def), "attr")

\* calls_found for a body node: the call_name captures, then the attr_call
\* captures
CallsFound(def) ==
    NamesOfKind(CallsBelow(def), "name") \o NamesOfKind(CallsBelow(def), "attr")

-----------------------------------------------------------------------------
(* DependencyExtractor.                                                    *)

\* lang = self.languages.get(ext); "if not lang: return"
Supported(file_path) == SplitExt(file_path) \in Languages

RECURSIVE AddFunctions(_, _, _)
\* the loop of extract_definitions over captures['func_name']
AddFunctions(g, defs, file_path) ==
    IF defs = <<>> THEN g
    ELSE AddFunctions(add_function(g, Head(defs).name, file_path),
                      Tail(defs), file_path)

\* DependencyExtractor.extract_definitions
extract_definitions(g, file_path, tree) ==
    IF ~Supported(file_path) THEN g
    ELSE AddFunctions(add_file(g, file_path), AllDefs(tree.defs), file_path)

\* the import test without the module name: any Python file matches
ImportMatches_any_py(mod_name, other_file) ==
    \/ EndsWith(other_file, PyExt)
    \/ EndsWith(other_file, ReplaceDots(mod_name) \o InitPy)

\* the test of the import loop: other_file ends with "{mod}.py" or
\* "{mod}/__init__.py", dots of mod replaced by '/'
ImportMatches(mod_name, other_file) ==
    \/ EndsWith(other_file, ReplaceDots(mod_name) \o PyExt)
    \/ EndsWith(other_file, ReplaceDots(mod_name) \o InitPy)

RECURSIVE LinkFiles(_, _, _)
\* "for other_file in graph.files": one add_file_dependency per match other
\* than the file itself
LinkFiles(g, file_path, others) ==
    IF others = {} THEN g
    ELSE LET other_file == CHOOSE o \in others : TRUE IN
         LinkFiles(add_file_dependency(g, file_path, other_file),
                   file_path, others \ {other_file})

\* the import loop without its test "other_file != file_path"
ImportTargets_with_self(g, file_path, mod_name) ==
    {other_file \in g.files : ImportMatches(mod_name, other_file)}

\* the files one captured module name links file_path to
ImportTargets(g, file_path, mod_name) ==
    {other_file \in g.files :
        ImportMatches(mod_name, other_file) /\ other_file # file_path}

RECURSIVE ResolveImports(_, _, _)
\* the loop of resolve_dependencies over captures['mod']
ResolveImports(g, file_path, mods) ==
    IF mods = <<>> THEN g
    ELSE ResolveImports(
             LinkFiles(g, file_path, ImportTargets(g, file_path, Head(mods))),
             file_path, Tail(mods))

\* A resolution in progress: the graph so far and whether KeyError was raised.
RECURSIVE LinkCalls(_, _, _)
\* "for target_call in calls_found": stops at the first call that raises
LinkCalls(r, unique_name, targets) ==
    IF r.raised \/ targets = <<>> THEN r
    ELSE IF add_function_dependency_raises(r.g, unique_name, Head(targets))
         THEN [r EXCEPT !.raised = TRUE]
         ELSE LinkCalls(
                  [r EXCEPT !.g = add_function_dependency(@, unique_name, Head(targets))],
                  unique_name, Tail(targets))

RECURSIVE ResolveCalls(_, _, _)
\* "for match in matches": one pass of LinkCalls per function definition
ResolveCalls(r, file_path, defs) ==
    IF r.raised \/ defs = <<>> THEN r
    ELSE ResolveCalls(
             LinkCalls(r, UniqueName(file_path, Head(defs).name), CallsFound(Head(defs))),
             file_path, Tail(defs))

\* DependencyExtractor.resolve_dependencies: the graph it leaves behind and
\* whether it raised
resolve_dependencies(g, file_path, tree) ==
    IF ~Supported(file_path) THEN [g |-> g, raised |-> FALSE]
    ELSE ResolveCalls(
             [g |-> ResolveImports(g, file_path, ImportCaptures(tree.imports)),
              raised |-> FALSE],
             file_path, AllDefs(tree.defs))


-----------------------------------------------------------------------------
(* The repositories the analysis is run on.                                *)

A_PY    == <<"a", ".", "p", "y">>
B_PY    == <<"b", ".", "p", "y">>
XA_PY   == <<"x", "a", ".", "p", "y">>
P_A_PY  == <<"p", "/", "a", ".", "p", "y">>
A_INIT  == <<"a", "/", "_", "_", "i", "n", "i", "t", "_", "_", ".", "p", "y">>
N_MD    == <<"n", ".", "m", "d">>

MOD_A   == <<"a">>
MOD_B   == <<"b">>
MOD_P   == <<"p">>
MOD_P_A == <<"p", ".", "a">>

\* import a / import b / import p.a / from p import a
ImportStmts ==
    {[kind |-> "import", mod |-> MOD_A],
     [kind |-> "import", mod |-> MOD_B],
     [kind |-> "import", mod |-> MOD_P_A],
     [kind |-> "from", mod |-> MOD_P, name |-> MOD_A]}

\* local names of functions; "print" is one of PYTHON_BUILTINS
FuncNames == {"helper", "print"}

\* f() is a call_name capture, x.f() an attr_call capture
Calls == [kind : {"name", "attr"}, name : FuncNames]

RECURSIVE SeqsUpTo(_, _)
\* the sequences over S of length at most n
SeqsUpTo(S, n) ==
    IF n = 0 THEN {<<>>}
    ELSE LET shorter == SeqsUpTo(S, n - 1) IN
         shorter \cup {Append(q, x) : q \in {t \in shorter : Len(t) = n - 1}, x \in S}

Min(a, b) == IF a < b THEN a ELSE b

\* a function definition without nested definitions, of at most n nodes
\* (the definition and its calls)
FlatDefs(n) ==
    IF n < 1 THEN {}
    ELSE [name : FuncNames, calls : SeqsUpTo(Calls, Min(n - 1, MaxCalls)), inner : {<<>>}]

\* a function definition of at most n nodes: flat, or with one definition
\* nested in its body
Defs(n) ==
    FlatDefs(n) \cup
    {[name |-> o, calls |-> <<>>, inner |-> <<d>>] : o \in FuncNames, d \in FlatDefs(n - 1)}

RECURSIVE DefSize(_)
DefSize(def) ==
    1 + Len(def.calls) + (IF def.inner = <<>> THEN 0 ELSE DefSize(def.inner[1]))

RECURSIVE DefLists(_)
\* the sequences of function definitions of at most n nodes in all
DefLists(n) ==
    {<<>>} \cup
    UNION {UNION {{<<d>> \o rest : rest \in rests[n - DefSize(d)]} : d \in Defs(n)} :
              rests \in {[k \in 0..(n - 1) |-> DefLists(k)]}}

\* the trees of at most n nodes: at most maxImports import statements from
\* stmts, and function definitions if withDefs
Trees(n, stmts, maxImports, withDefs) ==
    UNION {UNION {{[imports |-> i, defs |-> d] : d \in lists[n - Len(i)]} :
                     i \in SeqsUpTo(stmts, Min(n, maxImports))} :
              lists \in {[k \in 0..n |-> IF withDefs THEN DefLists(k) ELSE {<<>>}]}}

TreeSize(tree) ==
    LET RECURSIVE ListSize(_)
        ListSize(defs) ==
            IF defs = <<>> THEN 0 ELSE DefSize(Head(defs)) + ListSize(Tail(defs))
    IN  Len(tree.imports) + ListSize(tree.defs)

RECURSIVE ReposOver(_, _, _, _, _)
\* the repositories with exactly the files of paths and at most n nodes
ReposOver(paths, n, stmts, maxImports, withDefs) ==
    IF paths = {} THEN {<<>>}
    ELSE LET f == CHOOSE x \in paths : TRUE IN
         UNION {UNION {{Put(r, f, t) : r \in rests[n - TreeSize(t)]} :
                          t \in Trees(n, stmts, maxImports, withDefs)} :
                   rests \in {[k \in 0..n |->
                                 ReposOver(paths \ {f}, k, stmts, maxImports, withDefs)]}}

\* the non-empty sets of at most MaxFiles paths
FileSets(paths) == {S \in SUBSET paths : S # {} /\ Cardinality(S) <= MaxFiles}

\* repositories of import statements only, at most maxImports in all, over
\* paths that the suffix test tells apart or confuses
ImportRepos(maxImports) ==
    UNION {ReposOver(S, maxImports, ImportStmts, maxImports, FALSE) :
              S \in FileSets({A_PY, B_PY, XA_PY, P_A_PY, A_INIT, N_MD})}

\* repositories of function definitions, each file with or without an
\* import of b, of at most maxSize nodes in all
CallRepos(maxSize) ==
    UNION {ReposOver(S, maxSize, {[kind |-> "import", mod |-> MOD_B]}, 1, TRUE) :
              S \in FileSets({A_PY, B_PY})}

Repos(maxImports, maxSize) == ImportRepos(maxImports) \cup CallRepos(maxSize)


-----------------------------------------------------------------------------
(* State and steps.                                                        *)

SetGraph(g) ==
    /\ files' = g.files
    /\ functions' = g.functions
    /\ file_dependencies' = g.file_dependencies
    /\ function_dependencies' = g.function_dependencies
    /\ function_definitions' = g.function_definitions
    /\ function_name_index' = g.function_name_index

\* no scan of helper.py, main.py or repo_parser.py is under way
NoScan ==
    /\ entry = "none"
    /\ file_list = <<>>
    /\ results = <<>>
    /\ printed = <<>>
    /\ position = 0
    /\ futures = <<>>
    /\ workers = <<>>

\* graph = DependencyGraph(), before any call
Init ==
    /\ files = {}
    /\ functions = <<>>
    /\ file_dependencies = <<>>
    /\ function_dependencies = <<>>
    /\ function_definitions = <<>>
    /\ function_name_index = <<>>
    /\ repo \in Repos(MaxImports, MaxSize)
    /\ extracted = [f \in DOMAIN repo |-> 0]
    /\ resolved = [f \in DOMAIN repo |-> 0]
    /\ raised = FALSE
    /\ phase = "collect"
    /\ run = 1
    /\ firstEdges = <<>>
    /\ NoScan

\* extractor.extract_definitions(f, tree, graph), called at any time
ExtractDefinitions(f) ==
    /\ extracted[f] < MaxExtracts
    /\ SetGraph(extract_definitions(Graph, f, repo[f]))
    /\ extracted' = [extracted EXCEPT ![f] = @ + 1]
    /\ UNCHANGED <<repo, resolved, raised, phase, run, firstEdges, scanVars>>

\* extractor.resolve_dependencies(f, tree, graph), called at any time
ResolveDependencies(f) ==
    /\ resolved[f] < MaxResolves
    /\ LET r == resolve_dependencies(Graph, f, repo[f]) IN
       /\ SetGraph(r.g)
       /\ raised' = (raised \/ r.raised)
    /\ resolved' = [resolved EXCEPT ![f] = @ + 1]
    /\ UNCHANGED <<repo, extracted, phase, run, firstEdges, scanVars>>

Next ==
    \/ \E f \in DOMAIN repo : ExtractDefinitions(f)
    \/ \E f \in DOMAIN repo : ResolveDependencies(f)

\* the extractor's two methods called in any order
Spec == Init /\ [][Next]_vars


-----------------------------------------------------------------------------
(* The graph store called directly.                                        *)

StorePaths == {A_PY, B_PY}
StoreKeys == {UniqueName(p, n) : p \in StorePaths, n \in FuncNames}

RECURSIVE SumLen(_, _)
\* the total length of the lists d[k], k in ks
SumLen(d, ks) ==
    IF ks = {} THEN 0
    ELSE LET k == CHOOSE x \in ks : TRUE IN Len(d[k]) + SumLen(d, ks \ {k})

\* the number of add_function calls so far
Registrations == SumLen(function_definitions, DOMAIN function_definitions)

InitStore ==
    /\ files = {}
    /\ functions = <<>>
    /\ file_dependencies = <<>>
    /\ function_dependencies = <<>>
    /\ function_definitions = <<>>
    /\ function_name_index = <<>>
    /\ repo = <<>>
    /\ extracted = <<>>
    /\ resolved = <<>>
    /\ raised = FALSE
    /\ phase = "collect"
    /\ run = 1
    /\ firstEdges = <<>>
    /\ NoScan

callerVars == <<repo, extracted, resolved, phase, run, firstEdges, scanVars>>

\* graph.add_file(p)
AddFile(p) ==
    /\ SetGraph(add_file(Graph, p))
    /\ UNCHANGED <<callerVars, raised>>

\* graph.add_function(n, p)
AddFunction(n, p) ==
    /\ Registrations < MaxRegistrations
    /\ SetGraph(add_function(Graph, n, p))
    /\ UNCHANGED <<callerVars, raised>>

\* graph.add_file_dependency(s, t)
AddFileDependency(s, t) ==
    /\ SetGraph(add_file_dependency(Graph, s, t))
    /\ UNCHANGED <<callerVars, raised>>

\* graph.add_function_dependency(src, n), src a key that add_function has
\* returned: returns, or raises KeyError and leaves the graph as it was
AddFunctionDependency(src, n) ==
    /\ IF add_function_dependency_raises(Graph, src, n)
       THEN raised' = TRUE /\ UNCHANGED graphVars
       ELSE SetGraph(add_function_dependency(Graph, src, n)) /\ UNCHANGED raised
    /\ UNCHANGED callerVars

NextStore ==
    \/ \E p \in StorePaths : AddFile(p)
    \/ \E n \in FuncNames, p \in StorePaths : AddFunction(n, p)
    \/ \E s \in StorePaths : \E t \in StorePaths \ {s} : AddFileDependency(s, t)
    \/ \E src \in DOMAIN function_dependencies, n \in FuncNames :
          AddFunctionDependency(src, n)

\* any sequence of calls of the graph store's methods
SpecStore == InitStore /\ [][NextStore]_vars

-----------------------------------------------------------------------------
(* The two-pass caller: extract_definitions over every file, then          *)
(* resolve_dependencies over every file; then once more, on the same graph *)
(* or on a new one.                                                        *)

\* the FileEdges and CallEdges of a graph, as sets of pairs
FileEdges(g) ==
    UNION {{<<s, t>> : t \in g.file_dependencies[s]} :
              s \in DOMAIN g.file_dependencies}

CallEdges(g) ==
    UNION {{<<s, t>> : t \in g.function_dependencies[s]} :
              s \in DOMAIN g.function_dependencies}

Edges(g) == [file |-> FileEdges(g), call |-> CallEdges(g)]

\* pass 1 for one file
Collect(f) ==
    /\ phase = "collect"
    /\ extracted[f] < run
    /\ SetGraph(extract_definitions(Graph, f, repo[f]))
    /\ extracted' = [extracted EXCEPT ![f] = @ + 1]
    /\ phase' = IF \A h \in DOMAIN repo : extracted'[h] = run THEN "resolve" ELSE "collect"
    /\ UNCHANGED <<repo, resolved, raised, run, firstEdges, scanVars>>

\* pass 2 for one file
Resolve(f) ==
    /\ phase = "resolve"
    /\ resolved[f] < run
    /\ LET r == resolve_dependencies(Graph, f, repo[f]) IN
       /\ SetGraph(r.g)
       /\ raised' = (raised \/ r.raised)
       /\ resolved' = [resolved EXCEPT ![f] = @ + 1]
       /\ phase' = IF \A h \in DOMAIN repo : resolved'[h] = run THEN "done" ELSE "resolve"
       /\ firstEdges' = IF run = 1 /\ phase' = "done" THEN Edges(r.g) ELSE firstEdges
    /\ UNCHANGED <<repo, extracted, run, scanVars>>

\* the next run: on a new DependencyGraph() or on the graph of the last run
Rerun(fresh) ==
    /\ phase = "done"
    /\ run < MaxRuns
    /\ run' = run + 1
    /\ phase' = "collect"
    /\ IF fresh THEN SetGraph(EmptyGraph) ELSE UNCHANGED graphVars
    /\ UNCHANGED <<repo, extracted, resolved, raised, firstEdges, scanVars>>

NextRun ==
    \/ \E f \in DOMAIN repo : Collect(f)
    \/ \E f \in DOMAIN repo : Resolve(f)
    \/ \E fresh \in BOOLEAN : Rerun(fresh)

\* the extractor's two methods called in the two-pass order
SpecRun == Init /\ [][NextRun]_vars


-----------------------------------------------------------------------------
(* The repository scans: scan_repository of helper.py (one process),       *)
(* scan_repository of main.py (a process pool) and RepoParser.parse_repo.  *)
(* A scan walks the repository into file_list and deals with the files in  *)
(* that order.  Of a file the scans see its path and whether opening,      *)
(* reading and parsing it succeed or raise.                                *)

\* files one scan walks over
MaxScan == 3
\* worker processes of the pool (ProcessPoolExecutor's max_workers)
MaxWorkers == 2

ScanPaths == {A_PY, B_PY, XA_PY, P_A_PY}

\* a file_info: the file's path, and whether open / read / parse succeed
FileInfos == [rel_path : ScanPaths, readable : BOOLEAN]

\* os.walk: every file once
FileLists ==
    {q \in SeqsUpTo(FileInfos, MaxScan) :
        \A i \in 1..Len(q), j \in 1..Len(q) : i # j => q[i].rel_path # q[j].rel_path}

\* process_file: the analysis of parse_architecture, or the error record of
\* the except clause
process_file(file_info) ==
    IF file_info.readable
    THEN [filename |-> file_info.rel_path, imports |-> {}, structures |-> <<>>]
    ELSE [filename |-> file_info.rel_path, error |-> "str(e)"]

\* "error" in result
IsError(result) == "error" \in DOMAIN result

\* the loop body of scan_repository keeping every result, error records too
Collected_with_errors(rs, result) == Append(rs, result)

\* the loop body of scan_repository: results.append(result) unless the
\* result is an error record
Collected(rs, result) == IF IsError(result) THEN rs ELSE Append(rs, result)

\* the loop body of scan_repository: an error record is printed
Printed(pr, result) ==
    IF IsError(result) THEN Append(pr, result.filename) ELSE pr

\* RepoParser._parse_file: the tree, or None after printing the error
parse_file(file_info) ==
    IF file_info.readable THEN [tree |-> "Tree"] ELSE [tree |-> "None"]

analysisVars == <<graphVars, repo, extracted, resolved, raised, phase, run, firstEdges>>

InitScan ==
    /\ files = {}
    /\ functions = <<>>
    /\ file_dependencies = <<>>
    /\ function_dependencies = <<>>
    /\ function_definitions = <<>>
    /\ function_name_index = <<>>
    /\ repo = <<>>
    /\ extracted = <<>>
    /\ resolved = <<>>
    /\ raised = FALSE
    /\ phase = "collect"
    /\ run = 1
    /\ firstEdges = <<>>
    /\ entry \in {"helper", "main", "repo_parser"}
    /\ file_list \in FileLists
    /\ results = <<>>
    /\ printed = <<>>
    /\ position = 0
    /\ futures = IF entry = "main"
                 THEN [i \in 1..Len(file_list) |-> [state |-> "queued"]]
                 ELSE <<>>
    /\ workers = IF entry = "main"
                 THEN [w \in 1..MaxWorkers |-> [parser |-> "None", task |-> 0]]
                 ELSE <<>>

\* helper.scan_repository: one turn of "for file_info in file_list"
ScanNext ==
    /\ entry = "helper"
    /\ position < Len(file_list)
    /\ LET result == process_file(file_list[position + 1]) IN
       /\ results' = Collected(results, result)
       /\ printed' = Printed(printed, result)
    /\ position' = position + 1
    /\ UNCHANGED <<entry, file_list, futures, workers, analysisVars>>

\* RepoParser.parse_repo: one turn of "for file in files"; a tree is yielded,
\* for None nothing is
ParseNext ==
    /\ entry = "repo_parser"
    /\ position < Len(file_list)
    /\ LET file_info == file_list[position + 1]
           parsed == parse_file(file_info)
       IN  IF parsed.tree # "None"
           THEN /\ results' = Append(results, [file_path |-> file_info.rel_path,
                                               tree |-> parsed.tree])
                /\ UNCHANGED printed
           ELSE /\ printed' = Append(printed, file_info.rel_path)
                /\ UNCHANGED results
    /\ position' = position + 1
    /\ UNCHANGED <<entry, file_list, futures, workers, analysisVars>>

\* main.init_worker, the pool's initializer: the worker process sets its own
\* globals PY_LANGUAGE and parser
InitWorker(w) ==
    /\ entry = "main"
    /\ workers[w].parser = "None"
    /\ workers' = [workers EXCEPT ![w].parser = "Parser"]
    /\ UNCHANGED <<entry, file_list, results, printed, position, futures, analysisVars>>

\* the tasks of executor.map still in the call queue
Queued == {i \in DOMAIN futures : futures[i].state = "queued"}

\* an initialised idle worker takes the first task of the call queue
TakeTask(w) ==
    /\ entry = "main"
    /\ workers[w].parser # "None"
    /\ workers[w].task = 0
    /\ Queued # {}
    /\ LET i == CHOOSE k \in Queued : \A h \in Queued : k <= h IN
       /\ futures' = [futures EXCEPT ![i] = [state |-> "running"]]
       /\ workers' = [workers EXCEPT ![w].task = i]
    /\ UNCHANGED <<entry, file_list, results, printed, position, analysisVars>>

\* the worker's process_file returns; its result is sent back to the
\* coordinating process
FinishTask(w) ==
    /\ entry = "main"
    /\ workers[w].task # 0
    /\ futures' = [futures EXCEPT ![workers[w].task] =
                      [state |-> "done",
                       result |-> process_file(file_list[workers[w].task])]]
    /\ workers' = [workers EXCEPT ![w].task = 0]
    /\ UNCHANGED <<entry, file_list, results, printed, position, analysisVars>>

\* main.scan_repository: one turn of "for result in executor.map(...)"; map
\* hands the results over in the order of file_list
YieldNext ==
    /\ entry = "main"
    /\ position < Len(file_list)
    /\ futures[position + 1].state = "done"
    /\ LET result == futures[position + 1].result IN
       /\ results' = Collected(results, result)
       /\ printed' = Printed(printed, result)
    /\ position' = position + 1
    /\ UNCHANGED <<entry, file_list, futures, workers, analysisVars>>

NextScan ==
    \/ ScanNext
    \/ ParseNext
    \/ \E w \in DOMAIN workers : InitWorker(w)
    \/ \E w \in DOMAIN workers : TakeTask(w)
    \/ \E w \in DOMAIN workers : FinishTask(w)
    \/ YieldNext

\* a scan of a repository, by any of the three entry points
SpecScan == InitScan /\ [][NextScan]_vars

-----------------------------------------------------------------------------
(* Properties.                                                             *)

Modules == {MOD_A, MOD_B, MOD_P, MOD_P_A}

\* the ends of a path: path[i..], for every i
Suffixes(path) == {SubSeq(path, i, Len(path)) : i \in 1..(Len(path) + 1)}

\* module m resolves to path: the path ends with m's path form plus ".py"
\* or plus "/__init__.py"
ResolvesTo(m, path) ==
    \/ (ReplaceDots(m) \o <<".", "p", "y">>) \in Suffixes(path)
    \/ (ReplaceDots(m) \o <<"/">> \o <<"_", "_", "i", "n", "i", "t", "_", "_">>
            \o <<".", "p", "y">>) \in Suffixes(path)

\* the module names file f's import statements reference
ImportedBy(f) ==
    {ImportCaptures(repo[f].imports)[i] : i \in 1..Len(ImportCaptures(repo[f].imports))}

\* the number of references of f's import statements that resolve to path
ImportCount(f, path) ==
    Cardinality({i \in 1..Len(ImportCaptures(repo[f].imports)) :
                    ResolvesTo(ImportCaptures(repo[f].imports)[i], path)})

\* the registered functions with local name n
Named(n) == {k \in DOMAIN functions : Label(k) = n}

\* the elements of a sequence
Range(q) == {q[i] : i \in 1..Len(q)}

\* C1: phase gate. No file has been resolved while some file's definitions
\* are still uncollected.
PhaseGate ==
    \A f \in DOMAIN repo, h \in DOMAIN repo :
        resolved[f] > 0 => extracted[h] > 0

\* C2: NameIndex invariant. Every registered function has exactly one entry
\* of its composite key under its local name, and the index holds no key
\* that is not in the function table.
NameIndexInvariant ==
    /\ \A k \in DOMAIN functions :
          /\ Label(k) \in DOMAIN function_name_index
          /\ Cardinality({i \in 1..Len(function_name_index[Label(k)]) :
                             function_name_index[Label(k)][i] = k}) = 1
    /\ \A n \in DOMAIN function_name_index :
          Range(function_name_index[n]) \subseteq DOMAIN functions

\* C3: a call to a name of the builtin exclusion set creates no CallEdge:
\* no CallEdge leads to a function whose local name is excluded, the only
\* edges a call to that name could create.
NoBuiltinCallEdge ==
    \A e \in CallEdges(Graph) : Label(e[2]) \notin PYTHON_BUILTINS

\* C4: for registered files f1 # f2 where f1 imports a module resolving to
\* f2, once f1 is resolved in a run FileEdge(f1, f2) exists, and exactly
\* once, however many imports of f1 reference f2 and however often f1 is
\* resolved.
FileEdgeOnce ==
    \A f1 \in DOMAIN repo, f2 \in files :
        (/\ f1 \in files
         /\ f1 # f2
         /\ resolved[f1] = run
         /\ ImportCount(f1, f2) > 0)
        => Cardinality({e \in FileEdges(Graph) : e = <<f1, f2>>}) = 1

FileEdgeOnceWitness ==
    \E f1 \in DOMAIN repo, f2 \in files :
        /\ f1 \in files
        /\ f1 # f2
        /\ run = 2
        /\ resolved[f1] = 2
        /\ ImportCount(f1, f2) = 2
        /\ f2 \in file_dependencies[f1]

\* C5: ambiguity fan-out. A call of add_function_dependency(src, n) adds to
\* src's edges one edge per registered definition named n and no other, and
\* changes no other function's edges.
CallFanOut ==
    \A src \in DOMAIN function_dependencies, n \in FuncNames :
        LET after == add_function_dependency(Graph, src, n).function_dependencies IN
        /\ DOMAIN after = DOMAIN function_dependencies
        /\ after[src] = function_dependencies[src] \cup Named(n)
        /\ \A other \in DOMAIN after :
              other # src => after[other] = function_dependencies[other]

\* two files each define helper, a third function has called helper()
CallFanOutWitness ==
    /\ Named("helper") = {<<A_PY, "helper">>, <<B_PY, "helper">>}
    /\ <<A_PY, "print">> \in DOMAIN function_dependencies
    /\ function_dependencies[<<A_PY, "print">>] =
           {<<A_PY, "helper">>, <<B_PY, "helper">>}

\* C6: after a two-pass run, a function whose body calls bare name n has a
\* CallEdge to every registered function named n, in its own file or in
\* another, whether or not a FileEdge links the files; and every FileEdge
\* comes from an import, none from a call.
CallEdgeByName ==
    phase = "done" =>
        /\ \A f \in files \cap DOMAIN repo :
              \A d \in Range(AllDefs(repo[f].defs)) :
                 \A c \in Range(d.calls) :
                    c.kind = "name" =>
                        Named(c.name) \subseteq function_dependencies[<<f, d.name>>]
        /\ \A e \in FileEdges(Graph) :
              e[1] \in DOMAIN repo /\ ImportCount(e[1], e[2]) > 0

\* a call resolved into another file that no FileEdge links, and a call
\* resolved inside a file
CallEdgeByNameWitness ==
    /\ phase = "done"
    /\ FileEdges(Graph) = {}
    /\ \E e \in CallEdges(Graph) : e[1][1] # e[2][1]
    /\ \E e \in CallEdges(Graph) : e[1][1] = e[2][1] /\ e[1] # e[2]

\* C7: an import whose module matches no known file produces no FileEdge:
\* every FileEdge of a file leads to a file one of its imports resolves to,
\* and resolving an import that matches no known file leaves the graph
\* store as it was.
NoEdgeWithoutMatch ==
    /\ \A e \in FileEdges(Graph) :
          e[1] \in DOMAIN repo /\ ImportCount(e[1], e[2]) > 0
    /\ \A f \in DOMAIN repo, m \in Modules :
          (\A g \in files : ~ResolvesTo(m, g))
              => ResolveImports(Graph, f, <<m>>) = Graph

\* a resolved file that imports a module no registered file matches, beside
\* another registered file
NoEdgeWithoutMatchWitness ==
    \E f \in files \cap DOMAIN repo :
        /\ resolved[f] > 0
        /\ \E m \in ImportedBy(f) : \A g \in files : ~ResolvesTo(m, g)
        /\ files # {f}
        /\ file_dependencies[f] = {}

\* C8: idempotence. The second two-pass run over the unchanged repository,
\* on a new graph or on the first run's graph, ends with the edge sets the
\* first run ended with.
Idempotent ==
    (phase = "done" /\ run = 2) => Edges(Graph) = firstEdges

\* a second run that reused the first run's graph and ended with FileEdges
\* and CallEdges
IdempotentWitness ==
    /\ phase = "done"
    /\ run = 2
    /\ FileEdges(Graph) # {}
    /\ CallEdges(Graph) # {}
    /\ \E f \in DOMAIN function_definitions :
          Len(function_definitions[f]) = 2 * Len(AllDefs(repo[f].defs))

\* C9: both ends of every FileEdge are registered files, both ends of every
\* CallEdge are registered function keys, and add_file_dependency with an
\* unregistered source or target changes nothing.
EdgesReferToRegistered ==
    /\ \A e \in FileEdges(Graph) : e[1] \in files /\ e[2] \in files
    /\ \A e \in CallEdges(Graph) :
          e[1] \in DOMAIN functions /\ e[2] \in DOMAIN functions
    /\ \A s \in StorePaths, t \in StorePaths :
          (s \notin files \/ t \notin files)
              => add_file_dependency(Graph, s, t) = Graph
    /\ \A src \in StoreKeys \ DOMAIN functions, n \in FuncNames :
          \/ add_function_dependency_raises(Graph, src, n)
          \/ add_function_dependency(Graph, src, n) = Graph

\* a graph with CallEdges whose only registered file has no FileEdge, the
\* other path being unregistered
EdgesReferToRegisteredWitness ==
    /\ files = {A_PY}
    /\ FileEdges(Graph) = {}
    /\ CallEdges(Graph) # {}
    /\ StoreKeys \ DOMAIN functions # {}

\* C10: the file of every registered function's composite key is a
\* registered file.
KeyFileRegistered ==
    \A k \in DOMAIN functions : k[1] \in files /\ functions[k] \in files

\* the names called by the call expressions written directly in the body of
\* a definition named n of file f
CalledIn(f, n) ==
    UNION {{c.name : c \in Range(d.calls)} :
              d \in {x \in Range(AllDefs(repo[f].defs)) : x.name = n}}

\* C11: call scoping. Every CallEdge with source function A of file f comes
\* from a call expression written in the body of a definition named A of f
\* itself: its target carries a name that such a body calls directly, never
\* only a name called in a function nested in A or in another function.
CallScoping ==
    \A e \in CallEdges(Graph) :
        /\ e[1][1] \in DOMAIN repo
        /\ Label(e[2]) \in CalledIn(e[1][1], e[1][2])

\* names that may or may not be in the name index
LookupNames == FuncNames \cup {"absent"}

\* C12: add_function_dependency(source, name) with a name absent from the
\* name index does not raise and returns the graph store it was given, for
\* a registered and for an unregistered source.
AbsentNameNoEffect ==
    \A src \in StoreKeys, n \in LookupNames :
        n \notin DOMAIN function_name_index =>
            /\ ~add_function_dependency_raises(Graph, src, n)
            /\ add_function_dependency(Graph, src, n) = Graph

\* a store with a CallEdge, in which "print" is not indexed and one key is
\* registered and another is not
AbsentNameNoEffectWitness ==
    /\ "print" \notin DOMAIN function_name_index
    /\ CallEdges(Graph) # {}
    /\ StoreKeys \cap DOMAIN function_dependencies # {}
    /\ StoreKeys \ DOMAIN function_dependencies # {}

\* C13: no call of extract_definitions or resolve_dependencies, in any
\* order, has raised an error out of the graph store.
NeverRaises == ~raised

\* C14: failure isolation. When a sequential scan has ended, every file
\* whose reading or parsing failed is in the value handed to the caller as
\* an error result naming the file, beside the results of the other files.
FailuresReachCaller ==
    (entry \in {"helper", "repo_parser"} /\ position = Len(file_list)) =>
        \A i \in 1..Len(file_list) :
            ~file_list[i].readable =>
                \E k \in 1..Len(results) :
                    /\ IsError(results[k])
                    /\ results[k].filename = file_list[i].rel_path

\* the readable files among the first n of file_list, in file-list order
ReadableAmong(n) ==
    LET ok(file_info) == file_info.readable IN
    SelectSeq(SubSeq(file_list, 1, n), ok)

\* C18: in the scan with a process pool, at every moment and for every
\* interleaving of the workers, the result list holds exactly one entry per
\* readable file among those handed over so far, in file-list order, and no
\* entry of a failed file; only a step of the coordinating process (one that
\* advances its position) changes the result list, and a step of a worker
\* changes no other worker's state.
PoolResultsInOrder ==
    /\ [](entry = "main" =>
            /\ Len(results) = Len(ReadableAmong(position))
            /\ \A k \in 1..Len(results) :
                  /\ ~IsError(results[k])
                  /\ results[k].filename = ReadableAmong(position)[k].rel_path)
    /\ [][entry = "main" =>
            /\ (results' # results =>
                    position' = position + 1 /\ workers' = workers)
            /\ \A w \in DOMAIN workers :
                  workers'[w] # workers[w] =>
                      /\ results' = results
                      /\ \A v \in DOMAIN workers \ {w} : workers'[v] = workers[v]]_vars

\* the pool has finished the third file while the second is still running,
\* and the coordinating process has taken the result of the first; a file
\* of the list fails
PoolResultsInOrderWitness ==
    /\ entry = "main"
    /\ Len(file_list) = 3
    /\ \E i \in 1..3 : ~file_list[i].readable
    /\ position = 1
    /\ Len(results) = 1
    /\ futures[2].state = "running"
    /\ futures[3].state = "done"

\* the lines of one kind that to_dot emits in one subgraph, by position
LinesOf(kind, cluster) ==
    {i \in 1..Len(to_dot(Graph)) :
        /\ to_dot(Graph)[i].kind = kind
        /\ to_dot(Graph)[i].cluster = cluster}

\* the node labels to_dot declares in one subgraph
Declared(cluster) == {to_dot(Graph)[i].label : i \in LinesOf("node", cluster)}

\* C15: in the output of to_dot, no two node declarations of a subgraph
\* carry the same label, every registered file and function has a
\* declaration, and both ends of every edge line are labels declared in its
\* subgraph.
DotNodesDeclaredOnce ==
    \A cluster \in {"cluster_files", "cluster_functions"} :
        /\ \A i \in LinesOf("node", cluster), j \in LinesOf("node", cluster) :
              to_dot(Graph)[i].label = to_dot(Graph)[j].label => i = j
        /\ Cardinality(Declared(cluster)) =
              (IF cluster = "cluster_files"
               THEN Cardinality(files) ELSE Cardinality(DOMAIN functions))
        /\ \A i \in LinesOf("edge", cluster) :
              /\ to_dot(Graph)[i].src \in Declared(cluster)
              /\ to_dot(Graph)[i].tgt \in Declared(cluster)

\* the files of the repository that the extractor registers
KnownFiles == {f \in DOMAIN repo : Supported(f)}

\* the composite keys of the function definitions of the repository
KnownKeys ==
    UNION {{UniqueName(f, d.name) : d \in Range(AllDefs(repo[f].defs))} :
              f \in KnownFiles}

\* the edge sets that the catalog of the repository determines: a FileEdge
\* for every import that resolves to another known file, a CallEdge from
\* every function to every known function carrying a name called below its
\* body
CatalogEdges ==
    [file |-> {e \in KnownFiles \X KnownFiles :
                  e[1] # e[2] /\ ImportCount(e[1], e[2]) > 0},
     call |-> UNION {UNION {{<<UniqueName(f, d.name), k>> :
                               k \in {x \in KnownKeys :
                                         \E c \in Range(CallsBelow(d)) :
                                             Label(x) = c.name}} :
                              d \in Range(AllDefs(repo[f].defs))} :
                       f \in KnownFiles}]

\* C16: order independence. Whatever the order in which the files were
\* collected and resolved, a finished two-pass run has the edge sets that
\* the catalog determines; and in every state two edge insertions, of
\* either kind, leave the same graph store in either order.
OrderIndependent ==
    /\ phase = "done" => Edges(Graph) = CatalogEdges
    /\ \A s1 \in DOMAIN repo, t1 \in DOMAIN repo,
          s2 \in DOMAIN repo, t2 \in DOMAIN repo :
          add_file_dependency(add_file_dependency(Graph, s1, t1), s2, t2)
              = add_file_dependency(add_file_dependency(Graph, s2, t2), s1, t1)
    /\ \A k1 \in DOMAIN function_dependencies, n1 \in FuncNames,
          k2 \in DOMAIN function_dependencies, n2 \in FuncNames :
          add_function_dependency(add_function_dependency(Graph, k1, n1), k2, n2)
              = add_function_dependency(add_function_dependency(Graph, k2, n2), k1, n1)
    /\ \A s \in DOMAIN repo, t \in DOMAIN repo,
          k \in DOMAIN function_dependencies, n \in FuncNames :
          add_file_dependency(add_function_dependency(Graph, k, n), s, t)
              = add_function_dependency(add_file_dependency(Graph, s, t), k, n)

\* a finished run over two files, each with a function whose call resolved
\* into the other file
OrderIndependentWitness ==
    /\ phase = "done"
    /\ \E e1 \in CallEdges(Graph), e2 \in CallEdges(Graph) :
          /\ e1[1][1] # e1[2][1]
          /\ e2[1][1] = e1[2][1]
          /\ e2[2][1] = e1[1][1]

\* the catalog of a graph store: the file set, the function table, the
\* per-file definitions and the name index
Catalog(g) ==
    <<g.files, g.functions, g.function_definitions, g.function_name_index>>

\* g2 has the edge sets of g1, each with the same or more members
OnlyAddsEdges(g1, g2) ==
    /\ DOMAIN g2.file_dependencies = DOMAIN g1.file_dependencies
    /\ \A f \in DOMAIN g1.file_dependencies :
          g1.file_dependencies[f] \subseteq g2.file_dependencies[f]
    /\ DOMAIN g2.function_dependencies = DOMAIN g1.function_dependencies
    /\ \A k \in DOMAIN g1.function_dependencies :
          g1.function_dependencies[k] \subseteq g2.function_dependencies[k]

\* C17: phase 2 is read-only on the catalog. In every state, whatever was
\* extracted before, resolve_dependencies of any file, add_file_dependency
\* of any two files and add_function_dependency of any source and name that
\* does not raise leave the catalog as it is, create no edge set and remove
\* no edge.
ResolveKeepsCatalog ==
    /\ \A f \in DOMAIN repo :
          /\ Catalog(resolve_dependencies(Graph, f, repo[f]).g) = Catalog(Graph)
          /\ OnlyAddsEdges(Graph, resolve_dependencies(Graph, f, repo[f]).g)
    /\ \A s \in DOMAIN repo, t \in DOMAIN repo :
          /\ Catalog(add_file_dependency(Graph, s, t)) = Catalog(Graph)
          /\ OnlyAddsEdges(Graph, add_file_dependency(Graph, s, t))
    /\ \A f \in DOMAIN repo, n \in FuncNames, m \in FuncNames :
          ~add_function_dependency_raises(Graph, UniqueName(f, n), m) =>
              /\ Catalog(add_function_dependency(Graph, UniqueName(f, n), m))
                    = Catalog(Graph)
              /\ OnlyAddsEdges(Graph,
                               add_function_dependency(Graph, UniqueName(f, n), m))

\* a file was resolved before its definitions were collected, beside a
\* registered file; later resolutions added a FileEdge and a CallEdge
ResolveKeepsCatalogWitness ==
    /\ \E f \in DOMAIN repo : resolved[f] > extracted[f]
    /\ DOMAIN functions # {}
    /\ FileEdges(Graph) # {}
    /\ CallEdges(Graph) # {}

\* C19: no file has a FileEdge to itself, whatever was extracted and
\* resolved, in any order.
NoSelfEdge ==
    \A e \in FileEdges(Graph) : e[1] # e[2]

\* a registered file that imports a module resolving to its own path was
\* resolved, and the resolution linked it to another file
NoSelfEdgeWitness ==
    \E f \in files \cap DOMAIN repo :
        /\ resolved[f] > 0
        /\ \E m \in ImportedBy(f) : ResolvesTo(m, f)
        /\ file_dependencies[f] # {}

\* path is the file or the package of module m: it is m's path form plus
\* ".py" or plus "/__init__.py", or ends with one of them after a '/'
ResolvesAtBoundary(m, path) ==
    \E name \in {ReplaceDots(m) \o <<".", "p", "y">>,
                 ReplaceDots(m) \o <<"/", "_", "_", "i", "n", "i", "t", "_", "_",
                                     ".", "p", "y">>} :
        \/ path = name
        \/ (<<"/">> \o name) \in Suffixes(path)

\* C20: import resolution matches exact path suffixes only. Every FileEdge
\* of a file leads to a file that is, at a path-separator boundary, the
\* file or the package of a module the source file imports.
ExactSuffixOnly ==
    \A e \in FileEdges(Graph) :
        /\ e[1] \in DOMAIN repo
        /\ \E m \in ImportedBy(e[1]) : ResolvesAtBoundary(m, e[2])

====
